---- MODULE Spec2Model ----
(***************************************************************************)
(* Request-lifecycle concurrency control of monkescience/vital:            *)
(*   - the Timeout middleware (timeout.go) with its timeoutResponseWriter, *)
(*     served under the Recovery middleware (middleware.go);               *)
(*   - the readiness handler (health.go): runAllChecks / runCheck /        *)
(*     overallStatus.                                                      *)
(* SpecGuard is one request through Recovery(Timeout(d)(handler)).         *)
(* SpecGuardFair is SpecGuard with a fair scheduler.                       *)
(* SpecIso is two concurrent requests through one Timeout(d), d > 0.       *)
(* SpecReady is one request through readyHandler; SpecReadyFair adds a     *)
(* fair scheduler; SpecLive adds liveness requests served concurrently.    *)
(***************************************************************************)
EXTENDS Integers, Sequences, FiniteSets, TLC

(***************************** bounds **************************************)
\* number of ResponseWriter calls the wrapped handler makes at most
MaxHandlerOps == 2
\* number of registered Checkers at most
MaxProbes == 2

(************************ program constants ********************************)
StatusOKCode == 200
StatusServiceUnavailable == 503
StatusInternalServerError == 500

DeadlineExceeded == "context deadline exceeded"
Canceled == "context canceled"
NoErr == ""
NoPanic == "no panic"

\* inputs of the wrapped handler and of the middleware
Durations == {-1, 0, 1}
HandlerCodes == {200, 404}
HandlerChunks == {"success", "late-write"}
PanicValues == {"test panic", "boom"}

VARIABLES
    \* ---- Timeout middleware, one request ----
    duration,     \* Timeout(duration)
    reqErr,       \* r.Context().Err()
    ctxErr,       \* ctx.Err() of the context derived at timeout.go:30
    gpc,          \* position of the goroutine that called the middleware
    outcome,      \* branch the outer select took: Running / Completed / TimedOut
    hpc,          \* position of the goroutine running next.ServeHTTP
    hPending,     \* the wrapped-writer call the handler is inside of
    hOps,         \* ResponseWriter calls made by the handler so far
    mu,           \* timeoutResponseWriter.mu: free / guard / handler
    headersSent,  \* timeoutResponseWriter.headersSent
    done,         \* done channel closed
    panicChan,    \* buffered channel of capacity 1
    underlying,   \* calls that reached the underlying http.ResponseWriter w
    hCalls,       \* calls the handler made on the writer it was given
    hPanic,       \* value the handler panicked with
    raised,       \* panic value raised on the goroutine that called the middleware
    recovered,    \* Recovery's deferred function has handled a panic
    logged,       \* messages logged by Recovery
    fire,         \* what held when ctx became done: [fired, done, wrote, writing]
    decision,     \* what held when the guard read headersSent: [made, begun];
                  \* tie: both select cases were ready when the select ran
    \* ---- readiness handler, one request ----
    cfg,          \* readyConfig
    checkers,     \* names of the registered Checkers, in registration order
    rpc,          \* position of readyHandler
    rReqErr,      \* req.Context().Err()
    octxErr,      \* Err() of the context derived by contextWithTimeoutIfNeeded
    cctxErr,      \* per probe: Err() of the context derived in runCheck
    ppc,          \* per probe: position of its goroutine
    pret,         \* per probe: what Check returned
    pErrAtReturn, \* per probe: cctx.Err() at the moment Check returned
    pErrAtRead,   \* per probe: the err runCheck read at line 343
    presult,      \* per probe: the CheckResponse runCheck returned
    responses,    \* the responses slice of runAllChecks
    wg,           \* waitGroup counter
    firstStored,  \* index of the probe whose result was stored first, 0 if none
    readyResp,    \* response written by readyHandler; writes counts the
                  \* writer.WriteHeader calls
    liveResp,     \* calls the live handler made on the writer of the latest
                  \* liveness request
    \* ---- two requests served concurrently by one Timeout instance ----
    reqs          \* per request: the locals of the closure of timeout.go:23-71

gvars == <<duration, reqErr, ctxErr, gpc, outcome, hpc, hPending, hOps, mu,
           headersSent, done, panicChan, underlying, hCalls, hPanic, raised,
           recovered, logged, fire, decision>>
rvars == <<cfg, checkers, rpc, rReqErr, octxErr, cctxErr, ppc, pret,
           pErrAtReturn, pErrAtRead, presult, responses, wg, firstStored,
           readyResp, liveResp>>
vars == <<gvars, rvars, reqs>>

(********************** response.go: problem details ***********************)
\* NewProblemDetail via newProblem: Type and Instance stay empty
NewProblemDetail(status, title, detail) ==
    [type |-> "", title |-> title, status |-> status, detail |-> detail,
     instance |-> ""]

ServiceUnavailable(detail) ==
    NewProblemDetail(StatusServiceUnavailable, "Service Unavailable", detail)

InternalServerError(detail) ==
    NewProblemDetail(StatusInternalServerError, "Internal Server Error", detail)

\* MarshalJSON: title and status always, the others only when not empty
MarshalJSON(p) ==
    [k \in {f \in DOMAIN p : f \in {"title", "status"} \/ p[f] # ""} |-> p[k]]

Call(by, op, code, data) == [by |-> by, op |-> op, code |-> code, data |-> data]

\* mutant: RespondProblem without the Content-Type header
RespondProblemHead_NoContentType(by, problem) ==
    << Call(by, "WriteHeader", problem.status, "") >>

\* RespondProblem, first half: w.Header().Set, w.WriteHeader(problem.Status)
RespondProblemHead(by, problem) ==
    << Call(by, "SetHeader", 0, "Content-Type: application/problem+json"),
       Call(by, "WriteHeader", problem.status, "") >>

\* RespondProblem, second half: json.NewEncoder(w).Encode(problem)
RespondProblemBody(by, problem) ==
    << Call(by, "Write", 0, MarshalJSON(problem)) >>

(************************ health.go: values ********************************)
StatusOK == "ok"
StatusError == "error"

\* what a Checker may return: Status is a string type, any value is possible
CheckReturns ==
    { [status |-> StatusOK, msg |-> ""],
      [status |-> StatusOK, msg |-> "connection successful"],
      [status |-> StatusError, msg |-> "refused"],
      [status |-> "degraded", msg |-> ""] }
ReadyTimeouts == {0, 1}
ProbeNames == <<"db", "cache", "queue">>

\* the zero value of CheckResponse, as make([]CheckResponse, n) holds it
ZeroCheckResponse == [Name |-> "", Status |-> "", Message |-> ""]

(************************ guard: initial state *****************************)
\* the requests served concurrently through one middleware instance
Requests == {1, 2}

NoHolder == [req |-> 0, by |-> "none"]

\* the locals of one invocation of the closure: ctx, wrapped (mu, headersSent),
\* done, panicChan, and the request's own writer w; checked and sawSent record
\* that the guard read headersSent and what it read
NewRequest ==
    [gpc |-> "idle", hpc |-> "notStarted", hOps |-> 0, ctxErr |-> NoErr,
     mu |-> NoHolder, headersSent |-> FALSE,
     done |-> FALSE, panicChan |-> <<>>,
     out |-> <<>>, raised |-> NoPanic, checked |-> FALSE, sawSent |-> FALSE]

NoCall == [op |-> "none", code |-> 0, data |-> ""]

GuardIdle ==
    /\ reqErr = NoErr
    /\ ctxErr = NoErr
    /\ gpc = "idle"
    /\ outcome = "Running"
    /\ hpc = "notStarted"
    /\ hPending = NoCall
    /\ hOps = 0
    /\ mu = "free"
    /\ headersSent = FALSE
    /\ done = FALSE
    /\ panicChan = <<>>
    /\ underlying = <<>>
    /\ hCalls = <<>>
    /\ hPanic = NoPanic
    /\ raised = NoPanic
    /\ recovered = FALSE
    /\ logged = <<>>
    /\ fire = [fired |-> FALSE, done |-> FALSE, wrote |-> FALSE, writing |-> FALSE]
    /\ decision = [made |-> FALSE, begun |-> FALSE, tie |-> FALSE]
    /\ reqs = [q \in Requests |-> NewRequest]

ReadyIdle ==
    /\ rpc = "idle"
    /\ rReqErr = NoErr
    /\ octxErr = NoErr
    /\ cctxErr = [i \in 1..Len(checkers) |-> NoErr]
    /\ ppc = [i \in 1..Len(checkers) |-> "unspawned"]
    /\ pret = [i \in 1..Len(checkers) |-> [status |-> "", msg |-> ""]]
    /\ pErrAtReturn = [i \in 1..Len(checkers) |-> NoErr]
    /\ pErrAtRead = [i \in 1..Len(checkers) |-> NoErr]
    /\ liveResp = <<>>
    /\ presult = [i \in 1..Len(checkers) |-> ZeroCheckResponse]
    /\ responses = <<>>
    /\ wg = 0
    /\ firstStored = 0
    /\ readyResp = [code |-> 0, status |-> "", checks |-> <<>>, writes |-> 0]

InitGuard ==
    /\ duration \in Durations
    /\ GuardIdle
    /\ cfg = [overallTimeout |-> 0, perCheckTimeout |-> 0]
    /\ checkers = <<>>
    /\ ReadyIdle

(************************ guard: timeout.go ********************************)
\* snapshot taken at the moment ctx becomes done
CtxDoneNow ==
    [fired |-> TRUE, done |-> done, wrote |-> hCalls # <<>>,
     writing |-> hpc \in {"locked", "unlocking"}]

\* deferred cancel() of timeout.go:31
CancelCtx == IF ctxErr = NoErr THEN Canceled ELSE ctxErr

\* mutant: no passthrough branch, a context is derived for every duration
GuardEnter_NoPassthrough ==
    /\ gpc = "idle"
    /\ gpc' = "select"
    /\ ctxErr' = reqErr
    /\ fire' = [fire EXCEPT !.fired = reqErr # NoErr]
    /\ hpc' = "running"
    /\ UNCHANGED <<reqs, rvars, decision, duration, reqErr, outcome, hPending, hOps, mu, headersSent,
                   done, panicChan, underlying, hCalls, hPanic, raised,
                   recovered, logged>>

\* timeout.go:23-51: passthrough, or derive ctx, wrap w and start the goroutine
GuardEnter ==
    /\ gpc = "idle"
    /\ IF duration <= 0
       THEN /\ gpc' = "passthrough"
            /\ ctxErr' = ctxErr
       ELSE /\ gpc' = "select"
            /\ ctxErr' = reqErr
    /\ fire' = [fire EXCEPT !.fired = duration > 0 /\ reqErr # NoErr]
    /\ hpc' = "running"
    /\ UNCHANGED <<reqs, rvars, decision, duration, reqErr, outcome, hPending, hOps, mu, headersSent,
                   done, panicChan, underlying, hCalls, hPanic, raised,
                   recovered, logged>>

\* mutant: the derived context does not follow the request's context
RequestCancel_NoPropagation ==
    /\ reqErr = NoErr
    /\ gpc \notin {"returned", "panicked"}
    /\ reqErr' = Canceled
    /\ UNCHANGED <<reqs, rvars, decision, duration, ctxErr, fire, gpc, outcome, hpc, hPending, hOps,
                   mu, headersSent, done, panicChan, underlying, hCalls, hPanic,
                   raised, recovered, logged>>

\* the client goes away: r.Context() is cancelled, and with it the derived ctx
RequestCancel ==
    /\ reqErr = NoErr
    /\ gpc \notin {"returned", "panicked"}
    /\ reqErr' = Canceled
    /\ IF gpc # "idle" /\ duration > 0 /\ ctxErr = NoErr
       THEN /\ ctxErr' = Canceled
            /\ fire' = CtxDoneNow
       ELSE UNCHANGED <<ctxErr, fire>>
    /\ UNCHANGED <<reqs, rvars, decision, duration, gpc, outcome, hpc, hPending, hOps, mu, headersSent,
                   done, panicChan, underlying, hCalls, hPanic, raised,
                   recovered, logged>>

\* the timer of context.WithTimeout(r.Context(), duration) fires
DeadlineFires ==
    /\ duration > 0
    /\ gpc \notin {"idle", "returned", "panicked"}
    /\ ctxErr = NoErr
    /\ ctxErr' = DeadlineExceeded
    /\ fire' = CtxDoneNow
    /\ UNCHANGED <<reqs, rvars, decision, duration, reqErr, gpc, outcome, hpc, hPending, hOps, mu,
                   headersSent, done, panicChan, underlying, hCalls, hPanic,
                   raised, recovered, logged>>

\* timeout.go:53-54: the select takes case <-done
GuardSelectDone ==
    /\ gpc = "select"
    /\ done
    /\ gpc' = "completed"
    /\ outcome' = "Completed"
    /\ decision' = [decision EXCEPT !.tie = ctxErr # NoErr]
    /\ UNCHANGED <<reqs, rvars, duration, reqErr, ctxErr, hpc, hPending, hOps, mu,
                   headersSent, done, panicChan, underlying, hCalls, hPanic,
                   raised, recovered, logged, fire>>

\* timeout.go:53,61: the select takes case <-ctx.Done()
GuardSelectTimeout ==
    /\ gpc = "select"
    /\ ctxErr # NoErr
    /\ gpc' = "lock"
    /\ outcome' = "TimedOut"
    /\ decision' = [decision EXCEPT !.tie = done]
    /\ UNCHANGED <<reqs, rvars, duration, reqErr, ctxErr, hpc, hPending, hOps, mu,
                   headersSent, done, panicChan, underlying, hCalls, hPanic,
                   raised, recovered, logged, fire>>

\* mutant: the done branch returns without looking at panicChan
GuardCompleted_Swallow ==
    /\ gpc = "completed"
    /\ gpc' = "returned"
    /\ ctxErr' = CancelCtx
    /\ UNCHANGED <<reqs, rvars, decision, duration, reqErr, outcome, hpc, hPending, hOps,
                   mu, headersSent, done, panicChan, underlying, hCalls, hPanic,
                   raised, recovered, logged, fire>>

\* timeout.go:55-60: re-raise a captured panic, or return; then deferred cancel()
GuardCompleted ==
    /\ gpc = "completed"
    /\ IF panicChan # <<>>
       THEN /\ raised' = Head(panicChan)
            /\ panicChan' = Tail(panicChan)
            /\ gpc' = "panicked"
       ELSE /\ gpc' = "returned"
            /\ UNCHANGED <<raised, panicChan>>
    /\ ctxErr' = CancelCtx
    /\ UNCHANGED <<reqs, rvars, decision, duration, reqErr, outcome, hpc, hPending, hOps, mu,
                   headersSent, done, underlying, hCalls, hPanic, recovered,
                   logged, fire>>

\* timeout.go:62: wrapped.mu.Lock()
GuardLock ==
    /\ gpc = "lock"
    /\ mu = "free"
    /\ mu' = "guard"
    /\ gpc' = "check"
    /\ UNCHANGED <<reqs, rvars, decision, duration, reqErr, ctxErr, outcome, hpc, hPending, hOps,
                   headersSent, done, panicChan, underlying, hCalls, hPanic,
                   raised, recovered, logged, fire>>

\* mutant: no timeout response when the context was cancelled, not expired
GuardCheck_SilentOnCancel ==
    /\ gpc = "check"
    /\ IF headersSent \/ ctxErr = Canceled
       THEN /\ gpc' = "returned"
            /\ mu' = "free"
            /\ ctxErr' = CancelCtx
       ELSE /\ gpc' = "respond"
            /\ UNCHANGED <<mu, ctxErr>>
    /\ decision' = [decision EXCEPT !.made = TRUE, !.begun = hCalls # <<>>]
    /\ UNCHANGED <<reqs, rvars, duration, reqErr, outcome, hpc, hPending, hOps, headersSent,
                   done, panicChan, underlying, hCalls, hPanic, raised,
                   recovered, logged, fire>>

\* timeout.go:65-67: the handler has started the response: return (deferred
\* Unlock and cancel), otherwise go on to RespondProblem
GuardCheck ==
    /\ gpc = "check"
    /\ IF headersSent
       THEN /\ gpc' = "returned"
            /\ mu' = "free"
            /\ ctxErr' = CancelCtx
       ELSE /\ gpc' = "respond"
            /\ UNCHANGED <<mu, ctxErr>>
    /\ decision' = [decision EXCEPT !.made = TRUE, !.begun = hCalls # <<>>]
    /\ UNCHANGED <<reqs, rvars, duration, reqErr, outcome, hpc, hPending, hOps, headersSent,
                   done, panicChan, underlying, hCalls, hPanic, raised,
                   recovered, logged, fire>>

\* timeout.go:69 with response.go:145-146, on the raw writer w
GuardRespondHead ==
    /\ gpc = "respond"
    /\ underlying' = underlying \o
           RespondProblemHead("guard", ServiceUnavailable("request timeout exceeded"))
    /\ gpc' = "encode"
    /\ UNCHANGED <<reqs, rvars, decision, duration, reqErr, ctxErr, outcome, hpc, hPending, hOps, mu,
                   headersSent, done, panicChan, hCalls, hPanic, raised,
                   recovered, logged, fire>>

\* timeout.go:69 with response.go:148, on the raw writer w
GuardRespondBody ==
    /\ gpc = "encode"
    /\ underlying' = underlying \o
           RespondProblemBody("guard", ServiceUnavailable("request timeout exceeded"))
    /\ gpc' = "responded"
    /\ UNCHANGED <<reqs, rvars, decision, duration, reqErr, ctxErr, outcome, hpc, hPending, hOps, mu,
                   headersSent, done, panicChan, hCalls, hPanic, raised,
                   recovered, logged, fire>>

\* mutant: the guard ends the handler's goroutine when it returns
GuardReturn_KillHandler ==
    /\ gpc = "responded"
    /\ mu' = "free"
    /\ ctxErr' = CancelCtx
    /\ gpc' = "returned"
    /\ hpc' = "exited"
    /\ UNCHANGED <<reqs, rvars, decision, duration, reqErr, outcome, hPending, hOps, headersSent,
                   done, panicChan, underlying, hCalls, hPanic, raised,
                   recovered, logged, fire>>

\* timeout.go:70-71: return after RespondProblem; deferred Unlock, then cancel
GuardReturn ==
    /\ gpc = "responded"
    /\ mu' = "free"
    /\ ctxErr' = CancelCtx
    /\ gpc' = "returned"
    /\ UNCHANGED <<reqs, rvars, decision, duration, reqErr, outcome, hpc, hPending, hOps, headersSent,
                   done, panicChan, underlying, hCalls, hPanic, raised,
                   recovered, logged, fire>>

(********** timeoutResponseWriter: the handler's goroutine *****************)
\* timeout.go:84 / timeout.go:95: the handler calls WriteHeader or Write on the
\* wrapped writer and acquires tw.mu
HandlerBegin(call) ==
    /\ duration > 0
    /\ hpc = "running"
    /\ hOps < MaxHandlerOps
    /\ mu = "free"
    /\ mu' = "handler"
    /\ hpc' = "locked"
    /\ hPending' = call
    /\ hCalls' = Append(hCalls, call)
    /\ hOps' = hOps + 1
    /\ UNCHANGED <<reqs, rvars, decision, duration, reqErr, ctxErr, gpc, outcome, headersSent, done,
                   panicChan, underlying, hPanic, raised, recovered, logged, fire>>

HandlerWriteHeader ==
    \E code \in HandlerCodes : HandlerBegin([op |-> "WriteHeader", code |-> code, data |-> ""])

HandlerWrite ==
    \E b \in HandlerChunks : HandlerBegin([op |-> "Write", code |-> 0, data |-> b])

\* timeout.go:87-90: WriteHeader under the lock
WrappedWriteHeader(call) ==
    IF ~headersSent
    THEN /\ headersSent' = TRUE
         /\ underlying' = Append(underlying, Call("handler", "WriteHeader", call.code, ""))
    ELSE UNCHANGED <<headersSent, underlying>>

\* mutant: Write that passes the data on without marking the headers as sent
WrappedWrite_NoFlag(call) ==
    /\ UNCHANGED headersSent
    /\ underlying' = Append(underlying, Call("handler", "Write", 0, call.data))

\* timeout.go:98-103: Write under the lock
WrappedWrite(call) ==
    /\ headersSent' = TRUE
    /\ underlying' = Append(underlying, Call("handler", "Write", 0, call.data))

\* the body of the wrapped call, tw.mu held
HandlerDo ==
    /\ hpc = "locked"
    /\ IF hPending.op = "WriteHeader"
       THEN WrappedWriteHeader(hPending)
       ELSE WrappedWrite(hPending)
    /\ hpc' = "unlocking"
    /\ UNCHANGED <<reqs, rvars, decision, duration, reqErr, ctxErr, gpc, outcome, hPending, hOps, mu,
                   done, panicChan, hCalls, hPanic, raised, recovered, logged, fire>>

\* mutant: the wrapped call returns without releasing tw.mu
HandlerUnlock_KeepsLock ==
    /\ hpc = "unlocking"
    /\ hpc' = "running"
    /\ hPending' = NoCall
    /\ UNCHANGED <<reqs, rvars, decision, duration, reqErr, ctxErr, gpc, outcome, hOps, headersSent,
                   done, panicChan, underlying, hCalls, hPanic, raised,
                   recovered, logged, fire, mu>>

\* deferred tw.mu.Unlock() of timeout.go:85 / timeout.go:96
HandlerUnlock ==
    /\ hpc = "unlocking"
    /\ mu' = "free"
    /\ hpc' = "running"
    /\ hPending' = NoCall
    /\ UNCHANGED <<reqs, rvars, decision, duration, reqErr, ctxErr, gpc, outcome, hOps, headersSent,
                   done, panicChan, underlying, hCalls, hPanic, raised,
                   recovered, logged, fire>>

\* next.ServeHTTP(wrapped, ...) returns normally (timeout.go:50)
HandlerReturn ==
    /\ duration > 0
    /\ hpc = "running"
    /\ hpc' = "closing"
    /\ UNCHANGED <<reqs, rvars, decision, duration, reqErr, ctxErr, gpc, outcome, hPending, hOps, mu,
                   headersSent, done, panicChan, underlying, hCalls, hPanic,
                   raised, recovered, logged, fire>>

\* next.ServeHTTP(wrapped, ...) panics (timeout.go:50)
HandlerPanic ==
    /\ duration > 0
    /\ hpc = "running"
    /\ \E p \in PanicValues : hPanic' = p
    /\ hpc' = "recovering"
    /\ UNCHANGED <<reqs, rvars, decision, duration, reqErr, ctxErr, gpc, outcome, hPending, hOps, mu,
                   headersSent, done, panicChan, underlying, hCalls, raised,
                   recovered, logged, fire>>

\* mutant: the deferred function goes on to close(done) without sending
HandlerRecover_NoSend ==
    /\ hpc = "recovering"
    /\ hpc' = "closing"
    /\ UNCHANGED <<reqs, rvars, decision, duration, reqErr, ctxErr, gpc, outcome, hPending, hOps, mu,
                   headersSent, done, underlying, hCalls, hPanic, raised,
                   recovered, logged, fire, panicChan>>

\* timeout.go:43-45: recover() and panicChan <- p (capacity 1)
HandlerRecover ==
    /\ hpc = "recovering"
    /\ Len(panicChan) < 1
    /\ panicChan' = Append(panicChan, hPanic)
    /\ hpc' = "closing"
    /\ UNCHANGED <<reqs, rvars, decision, duration, reqErr, ctxErr, gpc, outcome, hPending, hOps, mu,
                   headersSent, done, underlying, hCalls, hPanic, raised,
                   recovered, logged, fire>>

\* timeout.go:47: close(done)
HandlerClose ==
    /\ hpc = "closing"
    /\ done' = TRUE
    /\ hpc' = "exited"
    /\ UNCHANGED <<reqs, rvars, decision, duration, reqErr, ctxErr, gpc, outcome, hPending, hOps, mu,
                   headersSent, panicChan, underlying, hCalls, hPanic, raised,
                   recovered, logged, fire>>

(************** passthrough: timeout.go:24-28, duration <= 0 ***************)
\* next.ServeHTTP(w, r) on the caller's goroutine: calls go to w directly
PassCall(call) ==
    /\ gpc = "passthrough"
    /\ hpc = "running"
    /\ hOps < MaxHandlerOps
    /\ hOps' = hOps + 1
    /\ hCalls' = Append(hCalls, call)
    /\ underlying' = Append(underlying, Call("handler", call.op, call.code, call.data))
    /\ UNCHANGED <<reqs, rvars, decision, duration, reqErr, ctxErr, gpc, outcome, hpc, hPending, mu,
                   headersSent, done, panicChan, hPanic, raised, recovered,
                   logged, fire>>

PassWriteHeader ==
    \E code \in HandlerCodes : PassCall([op |-> "WriteHeader", code |-> code, data |-> ""])

PassWrite ==
    \E b \in HandlerChunks : PassCall([op |-> "Write", code |-> 0, data |-> b])

PassReturn ==
    /\ gpc = "passthrough"
    /\ hpc = "running"
    /\ hpc' = "exited"
    /\ gpc' = "returned"
    /\ UNCHANGED <<reqs, rvars, decision, duration, reqErr, ctxErr, outcome, hPending, hOps, mu,
                   headersSent, done, panicChan, underlying, hCalls, hPanic,
                   raised, recovered, logged, fire>>

PassPanic ==
    /\ gpc = "passthrough"
    /\ hpc = "running"
    /\ \E p \in PanicValues : hPanic' = p /\ raised' = p
    /\ hpc' = "exited"
    /\ gpc' = "panicked"
    /\ UNCHANGED <<reqs, rvars, decision, duration, reqErr, ctxErr, outcome, hPending, hOps, mu,
                   headersSent, done, panicChan, underlying, hCalls,
                   recovered, logged, fire>>

(********************* Recovery: middleware.go:126-150 *********************)
\* mutant: Recovery answers 500 without logging
RecoveryRecover_Silent ==
    /\ gpc = "panicked"
    /\ ~recovered
    /\ recovered' = TRUE
    /\ underlying' = underlying
           \o RespondProblemHead("recovery", InternalServerError("internal server error"))
           \o RespondProblemBody("recovery", InternalServerError("internal server error"))
    /\ UNCHANGED <<reqs, rvars, decision, duration, reqErr, ctxErr, gpc, outcome, hpc, hPending, hOps,
                   mu, headersSent, done, panicChan, hCalls, hPanic, raised, fire, logged>>

\* the deferred function: recover(), log "panic recovered", RespondProblem 500
RecoveryRecover ==
    /\ gpc = "panicked"
    /\ ~recovered
    /\ recovered' = TRUE
    /\ logged' = Append(logged, [msg |-> "panic recovered", error |-> raised])
    /\ underlying' = underlying
           \o RespondProblemHead("recovery", InternalServerError("internal server error"))
           \o RespondProblemBody("recovery", InternalServerError("internal server error"))
    /\ UNCHANGED <<reqs, rvars, decision, duration, reqErr, ctxErr, gpc, outcome, hpc, hPending, hOps,
                   mu, headersSent, done, panicChan, hCalls, hPanic, raised, fire>>

NextGuard ==
    \/ GuardEnter
    \/ RequestCancel
    \/ DeadlineFires
    \/ GuardSelectDone
    \/ GuardSelectTimeout
    \/ GuardCompleted
    \/ GuardLock
    \/ GuardCheck
    \/ GuardRespondHead
    \/ GuardRespondBody
    \/ GuardReturn
    \/ HandlerWriteHeader
    \/ HandlerWrite
    \/ HandlerDo
    \/ HandlerUnlock
    \/ HandlerReturn
    \/ HandlerPanic
    \/ HandlerRecover
    \/ HandlerClose
    \/ PassWriteHeader
    \/ PassWrite
    \/ PassReturn
    \/ PassPanic
    \/ RecoveryRecover

SpecGuard == InitGuard /\ [][NextGuard]_vars

\* the steps of the goroutine that called the middleware, after the request
\* has entered it
GuardStep ==
    \/ GuardSelectDone
    \/ GuardSelectTimeout
    \/ GuardCompleted
    \/ GuardLock
    \/ GuardCheck
    \/ GuardRespondHead
    \/ GuardRespondBody
    \/ GuardReturn

\* the Go scheduler runs a goroutine that can take a step; a call on the
\* wrapped writer that holds tw.mu completes and releases it (no write stays
\* blocked under the lock). Nothing is assumed about the handler returning.
SpecGuardFair ==
    /\ InitGuard
    /\ [][NextGuard]_vars
    /\ WF_vars(GuardStep)
    /\ WF_vars(HandlerDo)
    /\ WF_vars(HandlerUnlock)

(******** two concurrent requests through one Timeout(d), d > 0 ***********)
InitIso ==
    /\ duration = 1
    /\ GuardIdle
    /\ cfg = [overallTimeout |-> 0, perCheckTimeout |-> 0]
    /\ checkers = <<>>
    /\ ReadyIdle

\* mutant: one wrapped writer state per middleware instance
WrappedOf_Shared(q) == 1

\* timeout.go:33-36: wrapped is allocated inside the closure, once per request
WrappedOf(q) == q

\* timeout.go:38-39: done and panicChan are made inside the closure
ChansOf(q) == q

PanicOf(q) == IF q = 1 THEN "test panic" ELSE "boom"

IsoCall(q, by, op, code, data) ==
    [req |-> q, by |-> by, op |-> op, code |-> code, data |-> data]

\* deferred cancel() of timeout.go:31, for request q
IsoCancelCtx(q) == IF reqs[q].ctxErr = NoErr THEN Canceled ELSE reqs[q].ctxErr

\* timeout.go:30-51 for request q
IsoEnter(q) ==
    /\ reqs[q].gpc = "idle"
    /\ reqs' = [reqs EXCEPT ![q].gpc = "select", ![q].hpc = "running"]
    /\ UNCHANGED <<gvars, rvars>>

\* the timer of request q's context fires
IsoDeadlineFires(q) ==
    /\ reqs[q].gpc \notin {"idle", "returned", "panicked"}
    /\ reqs[q].ctxErr = NoErr
    /\ reqs' = [reqs EXCEPT ![q].ctxErr = DeadlineExceeded]
    /\ UNCHANGED <<gvars, rvars>>

\* timeout.go:84 / 95: request q's handler calls its writer: tw.mu.Lock()
IsoHandlerBegin(q) ==
    /\ reqs[q].hpc = "running"
    /\ reqs[q].hOps < MaxHandlerOps
    /\ reqs[WrappedOf(q)].mu = NoHolder
    /\ reqs' = [reqs EXCEPT ![WrappedOf(q)].mu = [req |-> q, by |-> "handler"],
                            ![q].hpc = "locked",
                            ![q].hOps = @ + 1]
    /\ UNCHANGED <<gvars, rvars>>

\* timeout.go:87-90 with the deferred Unlock: WriteHeader(code)
IsoHandlerWriteHeader(q) ==
    /\ reqs[q].hpc = "locked"
    /\ \E code \in HandlerCodes :
           reqs' = [reqs EXCEPT
               ![q].out = IF reqs[WrappedOf(q)].headersSent
                          THEN @
                          ELSE Append(@, IsoCall(q, "handler", "WriteHeader", code, "")),
               ![WrappedOf(q)].headersSent = TRUE,
               ![WrappedOf(q)].mu = NoHolder,
               ![q].hpc = "running"]
    /\ UNCHANGED <<gvars, rvars>>

\* timeout.go:98-103 with the deferred Unlock: Write(b)
IsoHandlerWrite(q) ==
    /\ reqs[q].hpc = "locked"
    /\ reqs' = [reqs EXCEPT
           ![q].out = Append(@, IsoCall(q, "handler", "Write", 0, "success")),
           ![WrappedOf(q)].headersSent = TRUE,
           ![WrappedOf(q)].mu = NoHolder,
           ![q].hpc = "running"]
    /\ UNCHANGED <<gvars, rvars>>

\* timeout.go:42-50: the handler returns; the deferred function closes done
IsoHandlerReturn(q) ==
    /\ reqs[q].hpc = "running"
    /\ reqs' = [reqs EXCEPT ![q].hpc = "exited", ![ChansOf(q)].done = TRUE]
    /\ UNCHANGED <<gvars, rvars>>

\* timeout.go:42-50: the handler panics; the deferred function sends the value
\* and closes done
IsoHandlerPanic(q) ==
    /\ reqs[q].hpc = "running"
    /\ Len(reqs[ChansOf(q)].panicChan) < 1
    /\ reqs' = [reqs EXCEPT ![q].hpc = "exited",
                            ![ChansOf(q)].panicChan = Append(@, PanicOf(q)),
                            ![ChansOf(q)].done = TRUE]
    /\ UNCHANGED <<gvars, rvars>>

\* timeout.go:54-60: case <-done, then the inner select and the deferred cancel
IsoSelectDone(q) ==
    /\ reqs[q].gpc = "select"
    /\ reqs[ChansOf(q)].done
    /\ reqs' = IF reqs[ChansOf(q)].panicChan # <<>>
               THEN [reqs EXCEPT ![q].raised = Head(reqs[ChansOf(q)].panicChan),
                                 ![ChansOf(q)].panicChan = Tail(@),
                                 ![q].gpc = "panicked",
                                 ![q].ctxErr = IsoCancelCtx(q)]
               ELSE [reqs EXCEPT ![q].gpc = "returned",
                                 ![q].ctxErr = IsoCancelCtx(q)]
    /\ UNCHANGED <<gvars, rvars>>

\* timeout.go:61: case <-ctx.Done()
IsoSelectTimeout(q) ==
    /\ reqs[q].gpc = "select"
    /\ reqs[q].ctxErr # NoErr
    /\ reqs' = [reqs EXCEPT ![q].gpc = "lock"]
    /\ UNCHANGED <<gvars, rvars>>

\* timeout.go:62: wrapped.mu.Lock()
IsoGuardLock(q) ==
    /\ reqs[q].gpc = "lock"
    /\ reqs[WrappedOf(q)].mu = NoHolder
    /\ reqs' = [reqs EXCEPT ![WrappedOf(q)].mu = [req |-> q, by |-> "guard"],
                            ![q].gpc = "check"]
    /\ UNCHANGED <<gvars, rvars>>

\* timeout.go:65-71: return if headersSent, else RespondProblem on the
\* request's own w; deferred Unlock and cancel
IsoGuardRespond(q) ==
    /\ reqs[q].gpc = "check"
    /\ reqs' = [reqs EXCEPT
           ![q].out =
               IF reqs[WrappedOf(q)].headersSent
               THEN @
               ELSE @ \o << IsoCall(q, "guard", "SetHeader", 0,
                                    "Content-Type: application/problem+json"),
                            IsoCall(q, "guard", "WriteHeader",
                                    ServiceUnavailable("request timeout exceeded").status, ""),
                            IsoCall(q, "guard", "Write", 0,
                                    MarshalJSON(ServiceUnavailable("request timeout exceeded"))) >>,
           ![q].checked = TRUE,
           ![q].sawSent = reqs[WrappedOf(q)].headersSent,
           ![WrappedOf(q)].mu = NoHolder,
           ![q].ctxErr = IsoCancelCtx(q),
           ![q].gpc = "returned"]
    /\ UNCHANGED <<gvars, rvars>>

NextIso ==
    \/ \E q \in Requests : IsoEnter(q)
    \/ \E q \in Requests : IsoDeadlineFires(q)
    \/ \E q \in Requests : IsoHandlerBegin(q)
    \/ \E q \in Requests : IsoHandlerWriteHeader(q)
    \/ \E q \in Requests : IsoHandlerWrite(q)
    \/ \E q \in Requests : IsoHandlerReturn(q)
    \/ \E q \in Requests : IsoHandlerPanic(q)
    \/ \E q \in Requests : IsoSelectDone(q)
    \/ \E q \in Requests : IsoSelectTimeout(q)
    \/ \E q \in Requests : IsoGuardLock(q)
    \/ \E q \in Requests : IsoGuardRespond(q)

SpecIso == InitIso /\ [][NextIso]_vars

(************************ readiness: health.go *****************************)
InitReady ==
    /\ duration = 1
    /\ GuardIdle
    /\ cfg \in [overallTimeout : ReadyTimeouts, perCheckTimeout : ReadyTimeouts]
    /\ \E n \in 0..MaxProbes : checkers = SubSeq(ProbeNames, 1, n)
    /\ ReadyIdle

Probes == 1..Len(checkers)

\* ctx.Err() of the context runAllChecks hands to runCheck
\* (contextWithTimeoutIfNeeded: the request's own context when d <= 0)
OverallErr == IF cfg.overallTimeout > 0 THEN octxErr ELSE rReqErr

\* mutant: runCheck inspects the shared context, not the probe's own
CheckErr_Shared(i) == OverallErr

\* cctx.Err() in runCheck: cctx is ctx unless perCheckTimeout > 0
CheckErr(i) == IF cfg.perCheckTimeout > 0 THEN cctxErr[i] ELSE OverallErr

\* the per-probe contexts that exist and are not yet done take the parent's error
PropagateToChildren(err) ==
    [i \in Probes |->
        IF cfg.perCheckTimeout > 0 /\ ppc[i] \in {"checking", "checked"}
           /\ cctxErr[i] = NoErr
        THEN err
        ELSE cctxErr[i]]

\* mutant: every success is overridden, whether or not the context is done
RunCheckResult_OverrideFresh(name, ret, err) ==
    [Name |-> name,
     Status |-> IF ret.status = StatusOK THEN StatusError ELSE ret.status,
     Message |-> IF ret.status = StatusOK /\ err # NoErr
                 THEN IF ret.msg = "" THEN err ELSE ret.msg \o "; " \o err
                 ELSE ret.msg]

\* mutant: the context's error is appended whatever status Check returned
RunCheckResult_AppendAlways(name, ret, err) ==
    [Name |-> name,
     Status |-> IF err # NoErr THEN StatusError ELSE ret.status,
     Message |-> IF err # NoErr
                 THEN IF ret.msg = "" THEN err ELSE ret.msg \o "; " \o err
                 ELSE ret.msg]

\* mutant: runCheck that reports what Check returned, whatever cctx.Err() says
RunCheckResult_KeepStale(name, ret, err) ==
    [Name |-> name, Status |-> ret.status, Message |-> ret.msg]

\* runCheck, lines 343-359: override a success returned on a done context
RunCheckResult(name, ret, err) ==
    LET override == err # NoErr /\ ret.status = StatusOK
    IN  [Name |-> name,
         Status |-> IF override THEN StatusError ELSE ret.status,
         Message |-> IF override
                     THEN IF ret.msg = "" THEN err ELSE ret.msg \o "; " \o err
                     ELSE ret.msg]

\* mutant: only a status equal to StatusError counts as a failure
overallStatus_OnlyError(checks) ==
    IF \E i \in 1..Len(checks) : checks[i].Status = StatusError
    THEN StatusError
    ELSE StatusOK

RECURSIVE overallStatus(_)
\* overallStatus: Error at the first check that is not OK
overallStatus(checks) ==
    IF checks = <<>>
    THEN StatusOK
    ELSE IF Head(checks).Status # StatusOK
         THEN StatusError
         ELSE overallStatus(Tail(checks))

\* readyHandler up to waitGroup.Wait(): derive ctx, make responses,
\* waitGroup.Add(len(checkers)), start one goroutine per checker
ReadyEnter ==
    /\ rpc = "idle"
    /\ octxErr' = IF cfg.overallTimeout > 0 THEN rReqErr ELSE octxErr
    /\ responses' = [i \in Probes |-> ZeroCheckResponse]
    /\ wg' = Len(checkers)
    /\ ppc' = [i \in Probes |-> "spawned"]
    /\ rpc' = "waiting"
    /\ UNCHANGED <<reqs, gvars, cfg, checkers, rReqErr, cctxErr, pret, pErrAtReturn,
                   presult, firstStored, readyResp,
                   pErrAtRead, liveResp>>

\* the client goes away: req.Context() is cancelled, and every context derived
\* from it that is not yet done
ReadyRequestCancel ==
    /\ rReqErr = NoErr
    /\ rpc # "responded"
    /\ rReqErr' = Canceled
    /\ IF cfg.overallTimeout > 0 /\ rpc # "idle" /\ octxErr = NoErr
       THEN octxErr' = Canceled
       ELSE UNCHANGED octxErr
    /\ IF cfg.overallTimeout > 0 /\ octxErr # NoErr
       THEN UNCHANGED cctxErr
       ELSE cctxErr' = PropagateToChildren(Canceled)
    /\ UNCHANGED <<reqs, gvars, cfg, checkers, rpc, ppc, pret, pErrAtReturn, presult,
                   responses, wg, firstStored, readyResp,
                   pErrAtRead, liveResp>>

\* mutant: an overall deadline exists also when overallTimeout <= 0
OverallDeadline_Unconditional ==
    /\ rpc \in {"waiting", "joined"}
    /\ octxErr = NoErr
    /\ octxErr' = DeadlineExceeded
    /\ cctxErr' = PropagateToChildren(DeadlineExceeded)
    /\ UNCHANGED <<reqs, gvars, cfg, checkers, rpc, rReqErr, ppc, pret, pErrAtReturn,
                   presult, responses, wg, firstStored, readyResp,
                   pErrAtRead, liveResp>>

\* mutant: the expiry of the overall context rewrites the results already stored
OverallDeadline_RewritesStored ==
    /\ cfg.overallTimeout > 0
    /\ rpc \in {"waiting", "joined"}
    /\ octxErr = NoErr
    /\ octxErr' = DeadlineExceeded
    /\ cctxErr' = PropagateToChildren(DeadlineExceeded)
    /\ responses' = [i \in Probes |->
                         IF ppc[i] = "exited"
                         THEN [responses[i] EXCEPT !.Status = StatusError]
                         ELSE responses[i]]
    /\ UNCHANGED <<reqs, gvars, cfg, checkers, rpc, rReqErr, ppc, pret, pErrAtReturn,
                   presult, wg, firstStored, readyResp,
                   pErrAtRead, liveResp>>

\* the timer of contextWithTimeoutIfNeeded's context.WithTimeout fires
OverallDeadline ==
    /\ cfg.overallTimeout > 0
    /\ rpc \in {"waiting", "joined"}
    /\ octxErr = NoErr
    /\ octxErr' = DeadlineExceeded
    /\ cctxErr' = PropagateToChildren(DeadlineExceeded)
    /\ UNCHANGED <<reqs, gvars, cfg, checkers, rpc, rReqErr, ppc, pret, pErrAtReturn,
                   presult, responses, wg, firstStored, readyResp,
                   pErrAtRead, liveResp>>

\* the timer of runCheck's context.WithTimeout(ctx, cfg.perCheckTimeout) fires
PerCheckDeadline(i) ==
    /\ rpc # "crashed"
    /\ cfg.perCheckTimeout > 0
    /\ ppc[i] \in {"checking", "checked"}
    /\ cctxErr[i] = NoErr
    /\ cctxErr' = [cctxErr EXCEPT ![i] = DeadlineExceeded]
    /\ UNCHANGED <<reqs, gvars, cfg, checkers, rpc, rReqErr, octxErr, ppc, pret,
                   pErrAtReturn, presult, responses, wg, firstStored, readyResp,
                   pErrAtRead, liveResp>>

\* runCheck, lines 330-341: derive cctx and call chk.Check(cctx)
ProbeStart(i) ==
    /\ rpc # "crashed"
    /\ ppc[i] = "spawned"
    /\ cctxErr' = [cctxErr EXCEPT ![i] =
                       IF cfg.perCheckTimeout > 0 THEN OverallErr ELSE cctxErr[i]]
    /\ ppc' = [ppc EXCEPT ![i] = "checking"]
    /\ UNCHANGED <<reqs, gvars, cfg, checkers, rpc, rReqErr, octxErr, pret,
                   pErrAtReturn, presult, responses, wg, firstStored, readyResp,
                   pErrAtRead, liveResp>>

\* chk.Check(cctx) returns (line 341)
ProbeCheckReturns(i) ==
    /\ rpc # "crashed"
    /\ ppc[i] = "checking"
    /\ \E ret \in CheckReturns : pret' = [pret EXCEPT ![i] = ret]
    /\ pErrAtReturn' = [pErrAtReturn EXCEPT ![i] = CheckErr(i)]
    /\ ppc' = [ppc EXCEPT ![i] = "checked"]
    /\ UNCHANGED <<reqs, gvars, cfg, checkers, rpc, rReqErr, octxErr, cctxErr,
                   presult, responses, wg, firstStored, readyResp,
                   pErrAtRead, liveResp>>

\* chk.Check(cctx) panics (line 341): neither runCheck nor the goroutine of
\* runAllChecks recovers; the deferred cancel and waitGroup.Done() run while
\* the goroutine unwinds, then the Go runtime ends the process
ProbeCheckPanics(i) ==
    /\ rpc # "crashed"
    /\ ppc[i] = "checking"
    /\ ppc' = [ppc EXCEPT ![i] = "panicked"]
    /\ cctxErr' = [cctxErr EXCEPT ![i] =
                       IF cfg.perCheckTimeout > 0 /\ cctxErr[i] = NoErr
                       THEN Canceled ELSE cctxErr[i]]
    /\ wg' = wg - 1
    /\ rpc' = "crashed"
    /\ UNCHANGED <<reqs, gvars, cfg, checkers, rReqErr, octxErr, pret, pErrAtReturn,
                   presult, responses, firstStored, readyResp,
                   pErrAtRead, liveResp>>

\* runCheck, lines 343-359: read cctx.Err(), build the CheckResponse, return
\* (deferred cancel of cctx)
ProbeRunCheckReturns(i) ==
    /\ rpc # "crashed"
    /\ ppc[i] = "checked"
    /\ pErrAtRead' = [pErrAtRead EXCEPT ![i] = CheckErr(i)]
    /\ presult' = [presult EXCEPT ![i] = RunCheckResult(checkers[i], pret[i], CheckErr(i))]
    /\ cctxErr' = [cctxErr EXCEPT ![i] =
                       IF cfg.perCheckTimeout > 0 /\ cctxErr[i] = NoErr
                       THEN Canceled ELSE cctxErr[i]]
    /\ ppc' = [ppc EXCEPT ![i] = "computed"]
    /\ UNCHANGED <<reqs, gvars, cfg, checkers, rpc, rReqErr, octxErr, pret,
                   pErrAtReturn, responses, wg, firstStored, readyResp,
                   liveResp>>

\* mutant: results are stored in the order the probes finish
ProbeStore_ArrivalOrder(i) ==
    /\ rpc # "crashed"
    /\ ppc[i] = "computed"
    /\ responses' = [responses EXCEPT ![Len(checkers) - wg + 1] = presult[i]]
    /\ firstStored' = IF firstStored = 0 THEN i ELSE firstStored
    /\ wg' = wg - 1
    /\ ppc' = [ppc EXCEPT ![i] = "exited"]
    /\ UNCHANGED <<reqs, gvars, cfg, checkers, rpc, rReqErr, octxErr, cctxErr, pret,
                   pErrAtReturn, presult, readyResp,
                   pErrAtRead, liveResp>>

\* mutant: the goroutine stores its result and ends without waitGroup.Done()
ProbeStore_NoDone(i) ==
    /\ rpc # "crashed"
    /\ ppc[i] = "computed"
    /\ responses' = [responses EXCEPT ![i] = presult[i]]
    /\ firstStored' = IF firstStored = 0 THEN i ELSE firstStored
    /\ ppc' = [ppc EXCEPT ![i] = "exited"]
    /\ UNCHANGED <<reqs, gvars, cfg, checkers, rpc, rReqErr, octxErr, cctxErr, pret,
                   pErrAtReturn, presult, readyResp, pErrAtRead, liveResp, wg>>

\* runAllChecks, lines 493-495: responses[checkerIndex] = ...; waitGroup.Done()
ProbeStore(i) ==
    /\ rpc # "crashed"
    /\ ppc[i] = "computed"
    /\ responses' = [responses EXCEPT ![i] = presult[i]]
    /\ firstStored' = IF firstStored = 0 THEN i ELSE firstStored
    /\ wg' = wg - 1
    /\ ppc' = [ppc EXCEPT ![i] = "exited"]
    /\ UNCHANGED <<reqs, gvars, cfg, checkers, rpc, rReqErr, octxErr, cctxErr, pret,
                   pErrAtReturn, presult, readyResp,
                   pErrAtRead, liveResp>>

\* mutant: the join gives up on the probes once the overall context is done
ReadyJoin_AbandonOnDeadline ==
    /\ rpc = "waiting"
    /\ (wg = 0 \/ OverallErr # NoErr)
    /\ rpc' = "joined"
    /\ UNCHANGED <<reqs, gvars, cfg, checkers, rReqErr, octxErr, cctxErr, ppc, pret,
                   pErrAtReturn, presult, responses, wg, firstStored, readyResp,
                   pErrAtRead, liveResp>>

\* runAllChecks, lines 499-501: waitGroup.Wait() returns, return responses
ReadyJoin ==
    /\ rpc = "waiting"
    /\ wg = 0
    /\ rpc' = "joined"
    /\ UNCHANGED <<reqs, gvars, cfg, checkers, rReqErr, octxErr, cctxErr, ppc, pret,
                   pErrAtReturn, presult, responses, wg, firstStored, readyResp,
                   pErrAtRead, liveResp>>

\* mutant: the handler always answers 200
ReadyRespond_Always200 ==
    /\ rpc = "joined"
    /\ readyResp' = [code |-> StatusOKCode,
                     status |-> overallStatus(responses),
                     checks |-> responses,
                     writes |-> readyResp.writes + 1]
    /\ octxErr' = IF cfg.overallTimeout > 0 /\ octxErr = NoErr THEN Canceled ELSE octxErr
    /\ rpc' = "responded"
    /\ UNCHANGED <<reqs, gvars, cfg, checkers, rReqErr, cctxErr, ppc, pret,
                   pErrAtReturn, presult, responses, wg, firstStored,
                   pErrAtRead, liveResp>>

\* readyHandler, lines 452-472: aggregate, pick the status code, write the
\* response; then the deferred cancel of the overall context
ReadyRespond ==
    /\ rpc = "joined"
    /\ LET status == overallStatus(responses)
       IN  readyResp' = [code |-> IF status # StatusOK
                                  THEN StatusServiceUnavailable
                                  ELSE StatusOKCode,
                         status |-> status,
                         checks |-> responses,
                         writes |-> readyResp.writes + 1]
    /\ octxErr' = IF cfg.overallTimeout > 0 /\ octxErr = NoErr THEN Canceled ELSE octxErr
    /\ rpc' = "responded"
    /\ UNCHANGED <<reqs, gvars, cfg, checkers, rReqErr, cctxErr, ppc, pret,
                   pErrAtReturn, presult, responses, wg, firstStored,
                   pErrAtRead, liveResp>>

\* disableResponseCacheHeaders (part_000:529-533)
disableResponseCacheHeaders(by) ==
    << Call(by, "SetHeader", 0, "Cache-Control: no-store, no-cache"),
       Call(by, "SetHeader", 0, "Pragma: no-cache"),
       Call(by, "SetHeader", 0, "Expires: Thu, 01 Jan 1970 00:00:00 GMT") >>

\* mutant: the live handler answers with the state of the readiness results
LiveRequest_ReportsReadiness ==
    /\ rpc # "crashed"
    /\ liveResp' = disableResponseCacheHeaders("live") \o
           << Call("live", "SetHeader", 0, "Content-Type: application/json"),
              Call("live", "WriteHeader",
                   IF overallStatus(responses) = StatusOK
                   THEN StatusOKCode ELSE StatusServiceUnavailable, ""),
              Call("live", "Write", 0, [status |-> overallStatus(responses)]) >>
    /\ UNCHANGED <<reqs, gvars, cfg, checkers, rpc, rReqErr, octxErr, cctxErr, ppc, pret,
                   pErrAtReturn, pErrAtRead, presult, responses, wg, firstStored,
                   readyResp>>

\* LiveHandlerFunc (part_000:386-408), one liveness request served while the
\* process runs
LiveRequest ==
    /\ rpc # "crashed"
    /\ liveResp' = disableResponseCacheHeaders("live") \o
           << Call("live", "SetHeader", 0, "Content-Type: application/json"),
              Call("live", "WriteHeader", StatusOKCode, ""),
              Call("live", "Write", 0, [status |-> StatusOK]) >>
    /\ UNCHANGED <<reqs, gvars, cfg, checkers, rpc, rReqErr, octxErr, cctxErr, ppc, pret,
                   pErrAtReturn, pErrAtRead, presult, responses, wg, firstStored,
                   readyResp>>

NextReady ==
    \/ ReadyEnter
    \/ ReadyRequestCancel
    \/ OverallDeadline
    \/ \E i \in Probes : PerCheckDeadline(i)
    \/ \E i \in Probes : ProbeStart(i)
    \/ \E i \in Probes : ProbeCheckReturns(i)
    \/ \E i \in Probes : ProbeCheckPanics(i)
    \/ \E i \in Probes : ProbeRunCheckReturns(i)
    \/ \E i \in Probes : ProbeStore(i)
    \/ ReadyJoin
    \/ ReadyRespond

SpecReady == InitReady /\ [][NextReady]_vars

\* one readiness request with liveness requests served at any moment of it
NextLive ==
    \/ NextReady
    \/ LiveRequest

SpecLive == InitReady /\ [][NextLive]_vars

\* the steps of probe i's goroutine other than the Check call itself
ProbeGoroutineStep(i) ==
    /\ i \in Probes
    /\ \/ ProbeStart(i)
       \/ ProbeRunCheckReturns(i)
       \/ ProbeStore(i)

\* the request is served and the Go scheduler runs every goroutine that can
\* take a step. Nothing is assumed about Check returning, nor about timers
\* or the client.
SpecReadyFair ==
    /\ InitReady
    /\ [][NextReady]_vars
    /\ WF_vars(ReadyEnter)
    /\ WF_vars(ReadyJoin)
    /\ WF_vars(ReadyRespond)
    /\ \A i \in 1..MaxProbes : WF_vars(ProbeGoroutineStep(i))

(************ what a client of the underlying writer observes **************)
\* index of the call that fixes the status line: the first WriteHeader or Write
StatusCalls(log) == {i \in 1..Len(log) : log[i].op \in {"WriteHeader", "Write"}}

\* rec.Code: the code of the first WriteHeader; 200 when a Write came first or
\* nothing was written
ResponseCode(log) ==
    IF StatusCalls(log) = {}
    THEN StatusOKCode
    ELSE LET first == CHOOSE i \in StatusCalls(log) : \A j \in StatusCalls(log) : i <= j
         IN  IF log[first].op = "WriteHeader" THEN log[first].code ELSE StatusOKCode

RECURSIVE ResponseBody(_)
\* rec.Body: the data of the Write calls, in order
ResponseBody(log) ==
    IF log = <<>>
    THEN <<>>
    ELSE IF Head(log).op = "Write"
         THEN <<Head(log).data>> \o ResponseBody(Tail(log))
         ELSE ResponseBody(Tail(log))

CallsBy(who) == SelectSeq(underlying, LAMBDA e : e.by = who)

GuardWrote == CallsBy("guard") # <<>>
HandlerReached == CallsBy("handler") # <<>>

\* the handler's calls that have run to completion on the writer it was given
HandlerCompletedCalls ==
    IF hpc = "locked" THEN SubSeq(hCalls, 1, Len(hCalls) - 1) ELSE hCalls

GuardFinished == gpc \in {"returned", "panicked"}

(***************************** claims **************************************)

\* C1: when the deadline fires before the handler has written anything, the
\* underlying ResponseWriter never receives both handler calls and the
\* synthetic timeout response: the handler's late calls are discarded.
C1_NeverBoth ==
    (duration > 0 /\ ctxErr = DeadlineExceeded /\ fire.fired /\ ~fire.wrote)
        => ~(GuardWrote /\ HandlerReached)

\* C6: a handler that completes without panicking before the deadline fires
\* has its own response on the underlying writer, same status and same body,
\* and the guard writes no synthetic timeout response.
C6_HandlerResponseUnchanged ==
    (duration > 0 /\ reqErr = NoErr /\ done /\ hPanic = NoPanic
        /\ (fire.fired => fire.done))
        => /\ ~GuardWrote
           /\ ResponseCode(underlying) = ResponseCode(hCalls)
           /\ ResponseBody(underlying) = ResponseBody(hCalls)

\* the synthetic timeout response, call by call
ExpectedTimeoutResponse ==
    << [by |-> "guard", op |-> "SetHeader", code |-> 0,
        data |-> "Content-Type: application/problem+json"],
       [by |-> "guard", op |-> "WriteHeader", code |-> 503, data |-> ""],
       [by |-> "guard", op |-> "Write", code |-> 0,
        data |-> [title |-> "Service Unavailable", status |-> 503,
                  detail |-> "request timeout exceeded"]] >>

\* the response Recovery writes, call by call
ExpectedRecoveryResponse ==
    << [by |-> "recovery", op |-> "SetHeader", code |-> 0,
        data |-> "Content-Type: application/problem+json"],
       [by |-> "recovery", op |-> "WriteHeader", code |-> 500, data |-> ""],
       [by |-> "recovery", op |-> "Write", code |-> 0,
        data |-> [title |-> "Internal Server Error", status |-> 500,
                  detail |-> "internal server error"]] >>

IsPrefix(a, b) == Len(a) <= Len(b) /\ SubSeq(b, 1, Len(a)) = a

\* C7 as stated: once the deadline has fired before the handler signalled
\* completion, and the handler has written nothing, the guard has written the
\* synthetic response exactly once by the time it returns.
C7_SyntheticOnceAfterDeadline ==
    (duration > 0 /\ ctxErr = DeadlineExceeded /\ fire.fired /\ ~fire.done
        /\ hCalls = <<>> /\ GuardFinished)
        => CallsBy("guard") = ExpectedTimeoutResponse

\* C7 as amended: when the guard's select has taken the ctx.Done() branch and
\* the handler has not begun its response when the guard reads headersSent,
\* the guard writes the synthetic response (503, application/problem+json,
\* title "Service Unavailable", detail "request timeout exceeded") exactly
\* once; the guard never writes anything beyond that one response.
C7_TimedOutSyntheticOnce ==
    /\ IsPrefix(CallsBy("guard"), ExpectedTimeoutResponse)
    /\ (decision.made /\ ~decision.begun /\ GuardFinished)
           => CallsBy("guard") = ExpectedTimeoutResponse
    /\ (decision.made /\ ~decision.begun /\ gpc = "encode")
           => /\ ResponseCode(underlying) = 503
              /\ Len(CallsBy("guard")) = 2

C7_Witness ==
    /\ duration > 0
    /\ decision.made /\ ~decision.begun
    /\ gpc = "returned"
    /\ hpc = "running"
    /\ CallsBy("guard") = ExpectedTimeoutResponse

\* C8: when the handler has begun its response through the wrapped writer
\* before the guard reads headersSent, the guard writes nothing and the
\* underlying writer holds the handler's response alone.
C8_HandlerResponseStands ==
    (decision.made /\ decision.begun)
        => /\ ~GuardWrote
           /\ underlying = CallsBy("handler")
           /\ ResponseCode(underlying) = ResponseCode(HandlerCompletedCalls)
           /\ ResponseBody(underlying) = ResponseBody(HandlerCompletedCalls)

\* a handler write was in progress at the moment the deadline fired
C8_Witness ==
    /\ decision.made /\ decision.begun
    /\ ctxErr = DeadlineExceeded
    /\ fire.writing
    /\ gpc = "returned"
    /\ HandlerReached

\* C9: when the handler panics and the select takes the done branch, the
\* guard re-raises the handler's panic value on the calling goroutine, only
\* after the select, and writes nothing itself; Recovery then logs the value
\* and writes the 500 problem response.
C9_PanicReRaised ==
    duration > 0 =>
        /\ (hPanic # NoPanic /\ outcome = "Completed" /\ gpc # "completed")
               => (gpc = "panicked" /\ raised = hPanic /\ ~GuardWrote)
        /\ (raised # NoPanic => outcome = "Completed")
        /\ recovered
               => /\ logged = <<[msg |-> "panic recovered", error |-> hPanic]>>
                  /\ CallsBy("recovery") = ExpectedRecoveryResponse
        /\ (recovered /\ ~HandlerReached) => ResponseCode(underlying) = 500

C9_Witness ==
    /\ duration > 0
    /\ outcome = "Completed"
    /\ hPanic = "boom"
    /\ raised = "boom"
    /\ recovered
    /\ ResponseCode(underlying) = 500

\* C10: whenever the handler has panicked and both goroutines have finished,
\* the panic value has been raised on the goroutine that called the middleware.
C10_PanicNeverDropped ==
    (reqErr = NoErr /\ hPanic # NoPanic /\ hpc = "exited" /\ GuardFinished)
        => raised = hPanic

\* C2: once runAllChecks has returned, the result list has one entry per
\* registered probe and entry i holds the name of the probe registered at
\* index i and the CheckResponse that probe's runCheck produced, whatever the
\* order in which the probes finished.
C2_RegistrationOrder ==
    rpc \in {"joined", "responded"}
        => /\ Len(responses) = Len(checkers)
           /\ \A i \in Probes :
                  /\ responses[i].Name = checkers[i]
                  /\ responses[i] = presult[i]
           /\ rpc = "responded" => readyResp.checks = responses

\* the last registered probe finished first
C2_Witness ==
    /\ rpc = "joined"
    /\ Len(checkers) >= 2
    /\ firstStored = Len(checkers)
    /\ responses[1].Name = "db"
    /\ responses[Len(checkers)].Status = "degraded"
    /\ responses[1].Status = StatusOK

\* C3: runAllChecks has returned, and a response has been written, only when
\* the Check call of every registered probe has returned and its goroutine has
\* finished, also when the overall deadline fired first.
C3_JoinAll ==
    (rpc \in {"joined", "responded"} \/ readyResp.code # 0)
        => \A i \in Probes : ppc[i] = "exited"

\* a probe's Check returned after the overall deadline had fired
C3_Witness ==
    /\ rpc = "joined"
    /\ Len(checkers) >= 2
    /\ octxErr = DeadlineExceeded
    /\ \E i \in Probes : pErrAtReturn[i] = DeadlineExceeded
    /\ \E i \in Probes : pErrAtReturn[i] = NoErr

\* C4: a probe whose Check returned StatusOK on a context that was already done
\* is reported with status Error and a message holding the context's error:
\* the error alone when the probe's message was empty, otherwise the probe's
\* message, "; " and the error.
C4_StaleSuccessOverride ==
    \A i \in Probes :
        (ppc[i] \in {"computed", "exited"} /\ pret[i].status = StatusOK
            /\ pErrAtReturn[i] # NoErr)
            => /\ presult[i].Status = StatusError
               /\ pret[i].msg = "" => presult[i].Message = pErrAtReturn[i]
               /\ pret[i].msg # ""
                      => presult[i].Message = pret[i].msg \o "; " \o pErrAtReturn[i]
               /\ (pret[i].msg = "connection successful"
                      /\ pErrAtReturn[i] = DeadlineExceeded)
                      => presult[i].Message
                             = "connection successful; context deadline exceeded"
               /\ rpc = "responded"
                      => /\ readyResp.checks[i] = presult[i]
                         /\ readyResp.status = StatusError

C4_Witness ==
    /\ rpc = "responded"
    /\ \E i \in Probes :
           /\ pret[i] = [status |-> StatusOK, msg |-> "connection successful"]
           /\ pErrAtReturn[i] = DeadlineExceeded
           /\ readyResp.checks[i].Status = StatusError
           /\ readyResp.checks[i].Message
                  = "connection successful; context deadline exceeded"
    /\ \E i \in Probes :
           /\ pret[i] = [status |-> StatusOK, msg |-> ""]
           /\ pErrAtReturn[i] = Canceled
           /\ readyResp.checks[i].Message = "context canceled"

\* C5: the overall status of the readiness response is Error exactly when some
\* CheckResponse has a status other than OK, OK when all are OK, and OK with an
\* empty list when no probe is registered.
C5_Aggregation ==
    rpc = "responded"
        => /\ readyResp.status = StatusError
                  <=> \E i \in 1..Len(readyResp.checks) :
                          readyResp.checks[i].Status # StatusOK
           /\ readyResp.status = StatusOK
                  <=> \A i \in 1..Len(readyResp.checks) :
                          readyResp.checks[i].Status = StatusOK
           /\ Len(checkers) = 0
                  => (readyResp.status = StatusOK /\ readyResp.checks = <<>>)

\* a status that is neither OK nor Error makes the overall status Error
C5_Witness ==
    /\ rpc = "responded"
    /\ Len(checkers) = 2
    /\ readyResp.checks[1].Status = StatusOK
    /\ readyResp.checks[2].Status = "degraded"
    /\ readyResp.status = StatusError

\* C11: when done and ctx.Done() were both ready at the moment the select ran
\* (the deadline having fired, the request not cancelled), the select has
\* resolved to Completed and the guard writes no synthetic response.
C11_TieResolvesCompleted ==
    (duration > 0 /\ reqErr = NoErr /\ decision.tie)
        => (outcome = "Completed" /\ ~GuardWrote)

\* the WriteHeader calls the underlying writer received from the handler's
\* wrapped writer and from the guard
WriteHeaderCalls ==
    {i \in 1..Len(underlying) :
        underlying[i].op = "WriteHeader" /\ underlying[i].by \in {"handler", "guard"}}

\* C12: for one request through Timeout(d), d > 0, the underlying writer's
\* WriteHeader is invoked at most once, the handler's calls and the guard's
\* synthetic response counted together.
C12_WriteHeaderAtMostOnce ==
    duration > 0 => Cardinality(WriteHeaderCalls) <= 1

\* C13: the mutex is never held while a write to the underlying writer is in
\* progress: not by the guard between the WriteHeader and the Encode of the
\* synthetic response, and not by the handler's goroutine when the underlying
\* Write of a wrapped Write has just returned.
C13_LockNotHeldAcrossWrite ==
    /\ ~(gpc = "encode" /\ mu = "guard")
    /\ ~(hpc = "unlocking" /\ hPending.op = "Write" /\ mu = "handler")

\* the handler's calls as the writer it was given received them
HandlerCallsAsReceived ==
    [i \in 1..Len(hCalls) |->
        Call("handler", hCalls[i].op, hCalls[i].code, hCalls[i].data)]

\* C14: with duration <= 0 the middleware is the identity: no context is
\* derived (none ever becomes done), no goroutine, channel or wrapped writer is
\* used, the handler's calls reach the original writer as made, a panic of the
\* handler is raised on the caller's goroutine at once, the middleware returns
\* exactly when the handler does, and the guard writes nothing.
C14_Passthrough ==
    duration <= 0 =>
        /\ ~GuardWrote
        /\ ctxErr = NoErr /\ ~fire.fired
        /\ outcome = "Running" /\ ~decision.made
        /\ mu = "free" /\ ~headersSent /\ ~done /\ panicChan = <<>>
        /\ gpc \in {"idle", "passthrough", "returned", "panicked"}
        /\ CallsBy("handler") = HandlerCallsAsReceived
        /\ (hpc = "exited") <=> GuardFinished
        /\ hPanic # NoPanic => (raised = hPanic /\ gpc = "panicked")
        /\ ~recovered
               => /\ underlying = HandlerCallsAsReceived
                  /\ ResponseCode(underlying) = ResponseCode(hCalls)
                  /\ ResponseBody(underlying) = ResponseBody(hCalls)

\* negative duration, the client has gone away, the handler wrote 404 and a body
C14_Witness ==
    /\ duration < 0
    /\ reqErr = Canceled
    /\ gpc = "returned"
    /\ Len(hCalls) = 2
    /\ ResponseCode(underlying) = 404
    /\ ResponseBody(underlying) = <<"late-write">>

\* C15: once the deadline has fired the handler's context is done and stays
\* done; the handler's goroutine ends only by running its own deferred
\* function to close(done), never through a step of the guard, and it still
\* runs after the guard has returned.
C15_HandlerNotTerminated ==
    duration > 0 =>
        /\ fire.fired => ctxErr # NoErr
        /\ (fire.fired /\ reqErr = NoErr /\ ~GuardFinished) => ctxErr = DeadlineExceeded
        /\ (hpc = "exited") <=> done
        /\ (hpc = "exited" /\ hPanic # NoPanic)
               => (panicChan = <<hPanic>> \/ raised = hPanic)

\* the guard answered the timeout and returned; the handler made a call on its
\* writer afterwards and then returned by itself
C15_Witness ==
    /\ duration > 0
    /\ ctxErr = DeadlineExceeded
    /\ ~fire.done
    /\ outcome = "TimedOut"
    /\ gpc = "returned"
    /\ Len(underlying) = 4
    /\ SubSeq(underlying, 1, 3) = ExpectedTimeoutResponse
    /\ underlying[4].by = "handler"
    /\ hpc = "exited"

\* C20: once the middleware has derived its context, a cancelled request
\* context means the context passed to the handler is done.
C20_RequestCancelPropagates ==
    (duration > 0 /\ gpc # "idle" /\ reqErr # NoErr) => ctxErr # NoErr

\* the request was cancelled while the handler was running, before the deadline
C20_Witness ==
    /\ duration > 0
    /\ gpc = "select"
    /\ hpc = "running"
    /\ reqErr = Canceled
    /\ ctxErr = Canceled
    /\ fire.fired /\ ~fire.done


\* C16: the readiness response is written once, after runAllChecks has
\* joined every probe; its HTTP status is 200 exactly when the overall status
\* is OK and 503 otherwise, and agrees with the status field of the body.
C16_StatusCodeAgrees ==
    /\ rpc # "responded" => (readyResp.writes = 0 /\ readyResp.code = 0)
    /\ rpc = "responded"
           => /\ readyResp.writes = 1
              /\ \A i \in Probes : ppc[i] = "exited"
              /\ readyResp.checks = responses
              /\ readyResp.status \in {StatusOK, StatusError}
              /\ readyResp.code = 200 <=> readyResp.status = StatusOK
              /\ readyResp.code = 503 <=> readyResp.status # StatusOK
              /\ readyResp.code = 503
                     <=> \E i \in Probes : responses[i].Status # StatusOK

\* db reports OK, cache reports Error "refused": overall Error, HTTP 503
C16_Witness ==
    /\ rpc = "responded"
    /\ readyResp.code = 503
    /\ readyResp.status = StatusError
    /\ readyResp.checks =
           << [Name |-> "db", Status |-> StatusOK, Message |-> ""],
              [Name |-> "cache", Status |-> StatusError, Message |-> "refused"] >>

\* C17: whatever a probe does, the readiness call is never aborted, and once
\* runAllChecks has returned the result list holds a CheckResponse for every
\* registered probe, a probe that reported Error being listed as Error.
C17_ProbeFailureContained ==
    /\ rpc # "crashed"
    /\ \A i \in Probes : ppc[i] # "panicked"
    /\ rpc \in {"joined", "responded"}
           => \A i \in Probes :
                  /\ responses[i].Name = checkers[i]
                  /\ pret[i].status = StatusError
                         => responses[i].Status = StatusError

\* C18: with overallTimeout <= 0 no overall context is derived, so none ever
\* becomes done; while the request's own context is not cancelled, a probe
\* that returned OK is reported Error only when its own per-check deadline
\* expired.
C18_NoOverallDeadline ==
    cfg.overallTimeout <= 0 =>
        /\ octxErr = NoErr
        /\ OverallErr = rReqErr
        /\ \A i \in Probes :
               (ppc[i] \in {"computed", "exited"} /\ pret[i].status = StatusOK
                   /\ rReqErr = NoErr)
                   => /\ presult[i].Status = StatusError
                             => (cfg.perCheckTimeout > 0
                                    /\ cctxErr[i] = DeadlineExceeded)
                      /\ cfg.perCheckTimeout <= 0
                             => /\ presult[i].Status = StatusOK
                                /\ presult[i].Message = pret[i].msg

\* both timeouts disabled, every probe answered OK, the response is 200
C18_Witness ==
    /\ cfg.overallTimeout <= 0
    /\ cfg.perCheckTimeout <= 0
    /\ rReqErr = NoErr
    /\ rpc = "responded"
    /\ Len(checkers) = 2
    /\ \A i \in Probes : pret[i].status = StatusOK /\ presult[i].Status = StatusOK
    /\ readyResp.code = 200

\* C19: with perCheckTimeout > 0 the stale-success check reads the probe's own
\* context: a probe that returned OK with its own context expired is reported
\* Error, also when the overall context is not done, and a probe that returned
\* OK is reported Error only when its own context was done. With
\* perCheckTimeout <= 0 no per-probe context exists and the check reads the
\* shared context.
C19_PerCheckDeadline ==
    \A i \in Probes :
        /\ (cfg.perCheckTimeout > 0 /\ ppc[i] \in {"computed", "exited"}
               /\ pret[i].status = StatusOK)
               => /\ cctxErr[i] = DeadlineExceeded
                         => /\ presult[i].Status = StatusError
                            /\ pret[i].msg = ""
                                   => presult[i].Message = DeadlineExceeded
                  /\ presult[i].Status = StatusError
                         => (cctxErr[i] = DeadlineExceeded \/ OverallErr # NoErr)
                  /\ (cctxErr[i] = Canceled /\ OverallErr = NoErr)
                         => presult[i] = [Name |-> checkers[i], Status |-> StatusOK,
                                          Message |-> pret[i].msg]
        /\ cfg.perCheckTimeout <= 0
               => /\ cctxErr[i] = NoErr
                  /\ CheckErr(i) = OverallErr
                  /\ (ppc[i] \in {"computed", "exited"} /\ pret[i].status = StatusOK
                         /\ presult[i].Status = StatusError)
                         => OverallErr # NoErr

\* the first probe's own deadline expired and its OK was overridden, while the
\* overall context was not done and the second probe's OK stands
C19_Witness ==
    /\ cfg.perCheckTimeout > 0
    /\ cfg.overallTimeout > 0
    /\ Len(checkers) = 2
    /\ rpc = "joined"
    /\ octxErr = NoErr
    /\ rReqErr = NoErr
    /\ pret[1].status = StatusOK /\ pret[2].status = StatusOK
    /\ cctxErr[1] = DeadlineExceeded
    /\ responses[1].Status = StatusError
    /\ responses[2].Status = StatusOK

\* C22: a CheckResponse is never modified once produced: from the moment a
\* probe's goroutine has stored its result, its slot of the result list holds
\* what runCheck returned, through later deadline expiries, the completion of
\* other probes and the deferred cancel, up to the response.
C22_ResultImmutable ==
    \A i \in Probes :
        ppc[i] = "exited"
            => /\ responses[i] = presult[i]
               /\ responses[i].Name = checkers[i]
               /\ rpc = "responded" => readyResp.checks[i] = presult[i]
               /\ (pret[i].status = StatusOK /\ pErrAtReturn[i] = NoErr
                      /\ presult[i].Status = StatusOK
                      /\ rpc = "responded")
                      => readyResp.checks[i].Status = StatusOK

\* the first probe's OK was stored, then the overall deadline expired and the
\* second probe was overridden; the first is still OK in the response
C22_Witness ==
    /\ Len(checkers) = 2
    /\ rpc = "responded"
    /\ firstStored = 1
    /\ octxErr = DeadlineExceeded
    /\ pErrAtReturn[1] = NoErr
    /\ pErrAtReturn[2] = DeadlineExceeded
    /\ readyResp.checks[1].Status = StatusOK
    /\ readyResp.checks[2].Status = StatusError
    /\ pret[2].status = StatusOK

\* C24: a panic that reaches Recovery is recovered there: Recovery logs "panic
\* recovered" with the value once and writes the 500 problem response; a
\* request that ends without a panic gets no log entry and no call from
\* Recovery on its writer.
C24_RecoveryContains ==
    /\ (gpc = "panicked" /\ ~recovered) => ENABLED RecoveryRecover
    /\ recovered
           => /\ gpc = "panicked"
              /\ raised = hPanic
              /\ logged = <<[msg |-> "panic recovered", error |-> raised]>>
              /\ CallsBy("recovery") = ExpectedRecoveryResponse
              /\ SubSeq(underlying, Len(underlying) - 2, Len(underlying))
                     = ExpectedRecoveryResponse
    /\ ~recovered => (logged = <<>> /\ CallsBy("recovery") = <<>>)
    /\ gpc = "returned"
           => /\ ~recovered
              /\ raised = NoPanic
              /\ \A i \in 1..Len(underlying) : underlying[i].by \in {"handler", "guard"}

\* a handler served without a timeout panics after writing a header
C24_Witness ==
    /\ duration <= 0
    /\ recovered
    /\ hPanic = "test panic"
    /\ Len(hCalls) = 1
    /\ hCalls[1].op = "WriteHeader"
    /\ Len(underlying) = 4

\* C25: the recovered panic value is in the panic channel before done is
\* closed, the send finds the channel empty, the channel never holds more than
\* one value; on the done branch the guard finds the value; the handler's
\* deferred function can always go on to close(done), whatever the guard did.
C25_PanicBeforeDone ==
    duration > 0 =>
        /\ Len(panicChan) <= 1
        /\ hpc = "recovering" => (panicChan = <<>> /\ ENABLED HandlerRecover)
        /\ hpc = "closing" => ENABLED HandlerClose
        /\ (hpc \in {"closing", "exited"} /\ hPanic # NoPanic)
               => (panicChan = <<hPanic>> \/ raised = hPanic)
        /\ (gpc = "completed" /\ hPanic # NoPanic) => panicChan = <<hPanic>>
        /\ (done /\ hPanic # NoPanic /\ outcome = "TimedOut") => panicChan = <<hPanic>>

\* the guard answered the timeout and returned; the handler panicked later
\* and its goroutine still closed done
C25_Witness ==
    /\ duration > 0
    /\ outcome = "TimedOut"
    /\ gpc = "returned"
    /\ ~fire.done
    /\ hPanic = "boom"
    /\ panicChan = <<"boom">>
    /\ done
    /\ GuardWrote

\* C28: a probe that reports Error is listed with status Error and the very
\* message it returned, whether or not its context was done.
C28_ErrorMessageKept ==
    \A i \in Probes :
        (ppc[i] \in {"computed", "exited"} /\ pret[i].status = StatusError)
            => /\ presult[i] = [Name |-> checkers[i], Status |-> StatusError,
                                Message |-> pret[i].msg]
               /\ ppc[i] = "exited" => responses[i].Message = pret[i].msg

\* the probe reported Error "refused" on an expired context
C28_Witness ==
    /\ rpc = "responded"
    /\ \E i \in Probes :
           /\ pret[i] = [status |-> StatusError, msg |-> "refused"]
           /\ pErrAtReturn[i] = DeadlineExceeded
           /\ readyResp.checks[i].Message = "refused"
           /\ readyResp.checks[i].Status = StatusError

\* C30 as stated: when the request's context was cancelled before the deadline
\* and before the handler finished, and the handler writes nothing, the guard
\* has written the synthetic 503 by the time it returns.
C30_CancelAnswered503 ==
    (duration > 0 /\ reqErr = Canceled /\ ctxErr = Canceled /\ fire.fired
        /\ ~fire.done /\ hCalls = <<>> /\ GuardFinished)
        => CallsBy("guard") = ExpectedTimeoutResponse

\* C30 as amended: when the context became done through the cancellation of
\* the request (the deadline never fired), the select took the ctx.Done()
\* branch and the handler had not begun its response when the guard read
\* headersSent, the guard writes the synthetic 503 "request timeout exceeded".
C30_CancelTreatedAsTimeout ==
    (duration > 0 /\ reqErr = Canceled /\ ctxErr = Canceled /\ fire.fired
        /\ decision.made /\ ~decision.begun /\ GuardFinished)
        => /\ outcome = "TimedOut"
           /\ CallsBy("guard") = ExpectedTimeoutResponse
           /\ underlying[2] = [by |-> "guard", op |-> "WriteHeader", code |-> 503, data |-> ""]
           /\ underlying[3].data.detail = "request timeout exceeded"

C30_Witness ==
    /\ duration > 0
    /\ reqErr = Canceled
    /\ ctxErr = Canceled
    /\ fire.fired /\ ~fire.done /\ ~fire.wrote
    /\ decision.made /\ ~decision.begun
    /\ gpc = "returned"
    /\ hpc = "running"
    /\ underlying = ExpectedTimeoutResponse

\* C23: every response of the liveness endpoint is HTTP 200 with the JSON body
\* {"status":"ok"}, whatever probes are registered, whatever they returned and
\* whatever a readiness request is doing at that moment.
C23_LiveAlwaysOK ==
    liveResp # <<>>
        => /\ ResponseCode(liveResp) = 200
           /\ ResponseBody(liveResp) = << [status |-> "ok"] >>
           /\ Cardinality(StatusCalls(liveResp)) = 2
           /\ \E i \in 1..Len(liveResp) :
                  liveResp[i].data = "Content-Type: application/json"

\* the liveness request is answered while a readiness request is waiting for
\* a probe and another probe has already been stored as Error
C23_Witness ==
    /\ liveResp # <<>>
    /\ ResponseCode(liveResp) = 200
    /\ rpc = "waiting"
    /\ Len(checkers) = 2
    /\ ppc[1] = "checking"
    /\ ppc[2] = "exited"
    /\ responses[2].Status = StatusError

\* C27 as stated: a probe whose Check returned OK while its context was not
\* done is reported OK.
C27_FreshSuccessKept ==
    \A i \in Probes :
        (ppc[i] \in {"computed", "exited"} /\ pret[i].status = StatusOK
            /\ pErrAtReturn[i] = NoErr)
            => presult[i].Status = StatusOK

\* C27 as amended: a probe whose Check returned OK is reported OK, with its
\* message unchanged, when its context is still not done at the moment runCheck
\* reads cctx.Err() after the call; it is overridden to Error exactly when the
\* context is done at that read.
C27_SuccessKeptIfNotDoneAtRead ==
    \A i \in Probes :
        (ppc[i] \in {"computed", "exited"} /\ pret[i].status = StatusOK)
            => /\ pErrAtRead[i] = NoErr
                      => presult[i] = [Name |-> checkers[i], Status |-> StatusOK,
                                       Message |-> pret[i].msg]
               /\ pErrAtRead[i] # NoErr => presult[i].Status = StatusError
               /\ pErrAtReturn[i] # NoErr => pErrAtRead[i] = pErrAtReturn[i]

\* one probe's OK stands; the other's context expired between the return of
\* Check and the read of cctx.Err(), and it is reported Error
C27_Witness ==
    /\ Len(checkers) = 2
    /\ rpc = "responded"
    /\ pret[1].status = StatusOK /\ pErrAtRead[1] = NoErr
    /\ readyResp.checks[1].Status = StatusOK
    /\ pret[2].status = StatusOK
    /\ pErrAtReturn[2] = NoErr /\ pErrAtRead[2] = DeadlineExceeded
    /\ readyResp.checks[2].Status = StatusError

\* every registered probe's Check call has returned
AllChecksReturned ==
    /\ rpc # "crashed"
    /\ \A i \in Probes : ppc[i] \in {"checked", "computed", "exited"}

\* a step of the request's own goroutines, the Check calls left out
ReadySystemStep ==
    \/ ReadyEnter
    \/ ReadyJoin
    \/ ReadyRespond
    \/ \E i \in Probes : ProbeGoroutineStep(i)

\* steps the goroutine of a probe still has to take, the Check call included
ProbeStepsLeft(pc) ==
    CASE pc \in {"unspawned", "spawned"} -> 4
      [] pc = "checking" -> 3
      [] pc = "checked" -> 2
      [] pc = "computed" -> 1
      [] OTHER -> 0

RECURSIVE SumStepsLeft(_)
SumStepsLeft(pcs) ==
    IF pcs = <<>> THEN 0 ELSE ProbeStepsLeft(Head(pcs)) + SumStepsLeft(Tail(pcs))

\* steps the request still has to take before its response is written
ReadyStepsLeft ==
    SumStepsLeft(ppc)
    + (CASE rpc = "idle" -> 3 [] rpc = "waiting" -> 2 [] rpc = "joined" -> 1
         [] OTHER -> 0)

\* the same termination stated with fairness: checked under SpecReadyFair
ReadinessLeadsToResponse == AllChecksReturned ~> (rpc = "responded")

\* C26: once the Check call of every registered probe has returned and until
\* the response is written, some goroutine of the request can take a step, and
\* every such step brings the response nearer (so the request cannot run
\* forever without answering); with no probe registered the join finds the
\* counter at zero and does not wait.
C26_ReadinessTerminates ==
    /\ []((AllChecksReturned /\ rpc # "responded") => ENABLED ReadySystemStep)
    /\ []((Len(checkers) = 0 /\ rpc = "waiting") => (wg = 0 /\ ENABLED ReadyJoin))
    /\ [][ReadySystemStep => ReadyStepsLeft' < ReadyStepsLeft]_vars

\* no probe registered, default-like timeouts: the response is 200 with an
\* empty list
C26_Witness ==
    /\ Len(checkers) = 0
    /\ cfg.overallTimeout > 0
    /\ rpc = "responded"
    /\ readyResp.code = 200
    /\ readyResp.checks = <<>>

\* C29: for Timeout(d), d > 0, once the deadline has fired the call into the
\* middleware eventually ends, whether or not the handler ever returns.
C29_GuardTerminates ==
    (duration > 0 /\ ctxErr = DeadlineExceeded) ~> GuardFinished

\* the guard has answered and returned while the handler, which made no call,
\* is still running
C29_Witness ==
    /\ duration > 0
    /\ ctxErr = DeadlineExceeded
    /\ gpc = "returned"
    /\ hpc = "running"
    /\ hOps = 0
    /\ ~done
    /\ GuardWrote

\* the calls of one kind of writer that reached request q's own writer
IsoCallsBy(q, who) == SelectSeq(reqs[q].out, LAMBDA e : e.by = who)

\* C21: two requests served concurrently by one Timeout instance share no
\* flag, lock or channel: the lock a request needs is never held by the other
\* request, a request's writer receives only that request's calls, the guard
\* answers a request only when that request's own context is done and that
\* request's own handler has not begun its response, every call of a
\* request's handler reaches its writer unless its own response was begun, and
\* a request raises only its own handler's panic.
C21_PerRequestIsolation ==
    \A q \in Requests :
        /\ reqs[q].mu.req \in {0, q}
        /\ \A i \in 1..Len(reqs[q].out) : reqs[q].out[i].req = q
        /\ IsoCallsBy(q, "guard") # <<>>
               => /\ reqs[q].ctxErr = DeadlineExceeded
                  /\ reqs[q].gpc = "returned"
                  /\ Len(IsoCallsBy(q, "guard")) = 3
        /\ (reqs[q].checked /\ ~reqs[q].sawSent) => IsoCallsBy(q, "guard") # <<>>
        /\ reqs[q].sawSent => IsoCallsBy(q, "handler") # <<>>
        /\ reqs[q].headersSent = (IsoCallsBy(q, "handler") # <<>>)
        /\ (reqs[q].hOps = 0) => (IsoCallsBy(q, "handler") = <<>>)
        /\ reqs[q].raised \in {NoPanic, PanicOf(q)}
        /\ reqs[q].raised # NoPanic => reqs[q].hpc = "exited"
        /\ reqs[q].done = (reqs[q].hpc = "exited")

\* request 1 timed out and got the 503, its handler still running; request 2
\* completed with its handler's two calls on its writer and its own panic
C21_Witness ==
    /\ IsoCallsBy(1, "guard") # <<>>
    /\ IsoCallsBy(1, "handler") = <<>>
    /\ reqs[2].gpc = "panicked"
    /\ reqs[2].raised = PanicOf(2)
    /\ reqs[2].ctxErr = Canceled
    /\ Len(reqs[2].out) = 2
    /\ IsoCallsBy(2, "guard") = <<>>
    /\ reqs[1].hpc = "running"

====
